---- MODULE Spec2Model ----
(***************************************************************************)
(* Model of JamLicenseTrackerEditorModule.cpp: the content-browser menu    *)
(* extension that annotates assets with a source URL (package metadata     *)
(* key "AssetSourceURL"), summarises the URLs of a selection, selects the  *)
(* assets associated with a license asset, and repairs the asset manager   *)
(* settings.                                                               *)
(*                                                                         *)
(* Strings are sequences of character codes.  Every comparison the module  *)
(* makes on an FString (operator ==, !=, <, and the key functions of       *)
(* TMap<FString,...> and TSet<FString>) goes through the engine's          *)
(* Stricmp, which folds ASCII upper case to lower case before comparing.   *)
(***************************************************************************)
EXTENDS Integers, Sequences, FiniteSets, TLC

\* ------------------------------------------------------------------ bounds
NumAssets == 3
MaxSel == 3
MaxSyncs == 1

\* ----------------------------------------------------------------- strings
Empty == <<>>
URL_a == <<97>>
URL_A == <<65>>
URL_B == <<66>>
URL_ab == <<97, 98>>
\* the text "[multiple values]"
MultipleValues ==
  <<91, 109, 117, 108, 116, 105, 112, 108, 101, 32, 118, 97, 108, 117, 101, 115, 93>>

URLs == {URL_a, URL_A, URL_B, URL_ab}
Values == {Empty} \cup URLs

ToLower(c) == IF c >= 65 /\ c <= 90 THEN c + 32 ELSE c

RECURSIVE Stricmp(_, _)
Stricmp(s, t) ==
  IF s = <<>> THEN (IF t = <<>> THEN 0 ELSE 0 - 1)
  ELSE IF t = <<>> THEN 1
  ELSE IF ToLower(Head(s)) < ToLower(Head(t)) THEN 0 - 1
  ELSE IF ToLower(Head(s)) > ToLower(Head(t)) THEN 1
  ELSE Stricmp(Tail(s), Tail(t))

FStringEquals(s, t) == Stricmp(s, t) = 0
FStringLess(s, t) == Stricmp(s, t) < 0

\* byte/codepoint order, used only to state claims
RECURSIVE ByteLess(_, _)
ByteLess(s, t) ==
  IF t = <<>> THEN FALSE
  ELSE IF s = <<>> THEN TRUE
  ELSE IF Head(s) < Head(t) THEN TRUE
  ELSE IF Head(s) > Head(t) THEN FALSE
  ELSE ByteLess(Tail(s), Tail(t))

\* ------------------------------------------------------------------ assets
Assets == 1..NumAssets
\* GetOutermost() of a live object is never null: every asset has its package
PackageOf(a) == (a + 1) \div 2
Packages == {PackageOf(a) : a \in Assets}

SelSeqs ==
  {s \in UNION {[1..n -> Assets] : n \in 0..MaxSel} :
     \A i, j \in DOMAIN s : i # j => s[i] # s[j]}

Range(s) == {s[i] : i \in DOMAIN s}

VARIABLES
  ann,                    \* UMetaData value of key AssetSourceURL per asset
  hasMeta,                \* UPackage::HasMetaData per package
  alive,                  \* whether the asset's weak pointer still resolves
  modified,               \* packages recorded by Package->Modify() in the last transaction
  sel,                    \* Context->SelectedObjects
  bAnyHaveLicense, bAnyMissingLicense, SharedLicenseAssetID,
  StartingValue,
  menuEntries,            \* names of the entries added to the section
  subBuilt,               \* CreateLicenseListSubmenu has run for this menu
  URLUsageMap,            \* sequence of [key, count] in insertion order
  NumAssetsWithNoURL,
  UniqueURLs,
  subEntries,             \* labels of the entries of the submenu, in order
  last,                   \* the operation that ran last, with its inputs
  licURL,                 \* UJamAssetLicense::AssetSourceURL, or NotLicense for other classes
  regTag,                 \* the asset registry's AssetSourceURL tag value, or NoTag
  browserSel,             \* the assets the content browser shows as selected
  syncCalls,              \* calls of SyncBrowserToAssets
  checkedOut, writable,   \* source-control / file state of the settings ini
  PrimaryAssetTypesToScan, MetaDataTagsForAssetRegistry,
  configSaves,            \* calls of TryUpdateDefaultConfigFile
  reinits,                \* calls of ReinitializeFromConfig
  notification,           \* text of the last notification shown
  tokens,                 \* action tokens offered in the message log and not yet used
  calls                   \* SettingsHelpers calls of the last run, with their results

menuVars == <<sel, bAnyHaveLicense, bAnyMissingLicense, SharedLicenseAssetID,
              StartingValue, menuEntries>>
subVars == <<subBuilt, URLUsageMap, NumAssetsWithNoURL, UniqueURLs, subEntries>>
storeVars == <<ann, hasMeta, alive, modified>>
selectVars == <<licURL, regTag, browserSel, syncCalls>>
settingsVars == <<checkedOut, writable, PrimaryAssetTypesToScan, MetaDataTagsForAssetRegistry,
                  configSaves, reinits, notification, tokens, calls>>
vars == <<storeVars, menuVars, subVars, last, selectVars, settingsVars>>

NoOp == [op |-> "none", val |-> Empty, type |-> "none", rep |-> FALSE]

\* Metadata->GetValue(Obj, MD_AssetSourceURL) behind the HasMetaData test
HasStore(a) == hasMeta[PackageOf(a)]

\* UContentBrowserAssetContextMenuContext::GetSelectedObjects: the selected
\* objects that still resolve
GetSelectedObjects(s) == SelectSeq(s, LAMBDA a : alive[a])

\* ------------------------------------------------ AddAssetSourceOptions
\* one iteration of the loop of lines 96-130
SharedLoopBody(st, a) ==
  IF HasStore(a)
  THEN IF ann[a] = Empty
       THEN [any |-> st.any, missing |-> TRUE, shared |-> Empty]
       ELSE [any |-> TRUE,
             missing |-> st.missing,
             shared |-> IF ~st.any /\ ~st.missing THEN ann[a]
                        ELSE IF ~FStringEquals(ann[a], st.shared) THEN Empty
                        ELSE st.shared]
  ELSE [any |-> st.any, missing |-> TRUE, shared |-> st.shared]

RECURSIVE SharedLoop(_, _)
SharedLoop(st, objs) ==
  IF objs = <<>> THEN st
  ELSE SharedLoop(SharedLoopBody(st, Head(objs)), Tail(objs))

SharedScan(objs) ==
  SharedLoop([any |-> FALSE, missing |-> FALSE, shared |-> Empty], objs)

AddAssetSourceOptions(s) ==
  LET r == SharedScan(GetSelectedObjects(s)) IN
  /\ sel' = s
  /\ bAnyHaveLicense' = r.any
  /\ bAnyMissingLicense' = r.missing
  /\ SharedLicenseAssetID' = r.shared
  /\ menuEntries' =
       (IF r.shared # Empty THEN {"OpenLicenseURL"}
        ELSE IF r.any THEN {"ViewLicenses"}
        ELSE {}) \cup {"LicenseURL"}
  /\ StartingValue' = IF r.any /\ r.shared = Empty THEN MultipleValues ELSE r.shared
  /\ subBuilt' = FALSE
  /\ URLUsageMap' = <<>>
  /\ NumAssetsWithNoURL' = 0
  /\ UniqueURLs' = <<>>
  /\ subEntries' = <<>>
  /\ last' = [NoOp EXCEPT !.op = "menu"]
  /\ UNCHANGED <<storeVars, selectVars, settingsVars>>

\* ---------------------------------------------- CreateLicenseListSubmenu
\* a map whose entry is re-keyed by the string last added
RECURSIVE FindOrAddIncrement_Rekeys(_, _)
FindOrAddIncrement_Rekeys(m, k) ==
  IF m = <<>> THEN <<[key |-> k, count |-> 1]>>
  ELSE IF FStringEquals(Head(m).key, k)
       THEN <<[key |-> k, count |-> Head(m).count + 1]>> \o Tail(m)
       ELSE <<Head(m)>> \o FindOrAddIncrement_Rekeys(Tail(m), k)

\* URLUsageMap.FindOrAdd(LicenseAssetID) += 1
RECURSIVE FindOrAddIncrement(_, _)
FindOrAddIncrement(m, k) ==
  IF m = <<>> THEN <<[key |-> k, count |-> 1]>>
  ELSE IF FStringEquals(Head(m).key, k)
       THEN <<[key |-> Head(m).key, count |-> Head(m).count + 1]>> \o Tail(m)
       ELSE <<Head(m)>> \o FindOrAddIncrement(Tail(m), k)

\* the loop without the else branch of lines 341-344
CollectBody_SkipsNoStore(st, a) ==
  IF HasStore(a)
  THEN IF ann[a] # Empty
       THEN [map |-> FindOrAddIncrement(st.map, ann[a]), none |-> st.none]
       ELSE [map |-> st.map, none |-> st.none + 1]
  ELSE st

\* one iteration of the loop of lines 325-346
CollectBody(st, a) ==
  IF HasStore(a) /\ ann[a] # Empty
  THEN [map |-> FindOrAddIncrement(st.map, ann[a]), none |-> st.none]
  ELSE [map |-> st.map, none |-> st.none + 1]

RECURSIVE CollectLoop(_, _)
CollectLoop(st, objs) ==
  IF objs = <<>> THEN st
  ELSE CollectLoop(CollectBody(st, Head(objs)), Tail(objs))

Summarize(objs) == CollectLoop([map |-> <<>>, none |-> 0], objs)

\* URLUsageMap[A]
RECURSIVE MapCount(_, _)
MapCount(m, k) ==
  IF m = <<>> THEN 0
  ELSE IF FStringEquals(Head(m).key, k) THEN Head(m).count
  ELSE MapCount(Tail(m), k)

\* URLUsageMap.GenerateKeyArray
GenerateKeyArray(m) == [i \in DOMAIN m |-> m[i].key]

\* the predicate without its tie-break
SortPredicate_CountOnly(m, A, B) == MapCount(m, A) > MapCount(m, B)

\* the predicate of lines 352-365
SortPredicate(m, A, B) ==
  IF MapCount(m, A) = MapCount(m, B)
  THEN FStringLess(A, B)
  ELSE MapCount(m, A) > MapCount(m, B)

RECURSIVE SortInsert(_, _, _)
SortInsert(m, sorted, k) ==
  IF sorted = <<>> THEN <<k>>
  ELSE IF SortPredicate(m, k, Head(sorted)) THEN <<k>> \o sorted
  ELSE <<Head(sorted)>> \o SortInsert(m, Tail(sorted), k)

RECURSIVE SortKeys(_, _)
SortKeys(m, keys) ==
  IF keys = <<>> THEN <<>>
  ELSE SortInsert(m, SortKeys(m, Tail(keys)), Head(keys))

NoLicenseLabel == <<91, 110, 111, 93>>

CreateLicenseListSubmenu ==
  LET r == Summarize(GetSelectedObjects(sel))
      sorted == SortKeys(r.map, GenerateKeyArray(r.map))
  IN
  /\ "ViewLicenses" \in menuEntries
  /\ ~subBuilt
  /\ subBuilt' = TRUE
  /\ URLUsageMap' = r.map
  /\ NumAssetsWithNoURL' = r.none
  /\ UniqueURLs' = sorted
  /\ subEntries' = sorted \o (IF r.none > 0 THEN <<NoLicenseLabel>> ELSE <<>>)
  /\ last' = [NoOp EXCEPT !.op = "submenu"]
  /\ UNCHANGED <<storeVars, menuVars, selectVars, settingsVars>>

\* -------------------------------------------------- SetLicenseURLAction
\* the texts and ETextCommit types the text box is committed with
CommitInputs ==
  {<<Empty, "OnEnter">>, <<URL_A, "OnEnter">>, <<MultipleValues, "OnEnter">>,
   <<URL_A, "OnCleared">>}

\* the test without its comparison with StartingValue
CommitWrites_NoStartingTest(EndingValue, TextCommitType) == TextCommitType # "OnCleared"

\* the test of line 171
CommitWrites(EndingValue, TextCommitType) ==
  TextCommitType # "OnCleared" /\ ~FStringEquals(EndingValue, StartingValue)

\* the write guarded by HasMetaData, as the two read loops are
WriteTargets_OnlyWithStore == {a \in Range(sel) : alive[a] /\ HasStore(a)}

\* the weak pointers of the capture that still resolve (lines 175-179)
WriteTargets == {a \in Range(sel) : alive[a]}

\* a write that clears a value that is already the committed one
NewValue_Toggles(a, EndingValue) == IF ann[a] = EndingValue THEN Empty ELSE EndingValue

\* RemoveValue for an empty text, SetValue otherwise (lines 184-191)
NewValue(a, EndingValue) == EndingValue

SetLicenseURLAction(Val, TextCommitType) ==
  LET targets == IF CommitWrites(Val, TextCommitType) THEN WriteTargets ELSE {} IN
  /\ "LicenseURL" \in menuEntries
  /\ ann' = [a \in Assets |-> IF a \in targets THEN NewValue(a, Val) ELSE ann[a]]
  \* Package->GetMetaData() creates the store when the package has none
  /\ hasMeta' = [p \in Packages |-> hasMeta[p] \/ \E a \in targets : PackageOf(a) = p]
  /\ modified' = modified \cup {PackageOf(a) : a \in targets}
  /\ last' = [op |-> "commit", val |-> Val, type |-> TextCommitType,
              rep |-> last.op = "commit" /\ last.val = Val /\ last.type = TextCommitType]
  /\ UNCHANGED <<alive, menuVars, subVars, selectVars, settingsVars>>

\* a selected object is destroyed while the menu is open: its TWeakObjectPtr
\* resolves to null from then on
DestroyAsset(a) ==
  /\ "LicenseURL" \in menuEntries
  /\ a \in Range(sel)
  /\ alive[a]
  /\ alive' = [alive EXCEPT ![a] = FALSE]
  /\ last' = [NoOp EXCEPT !.op = "destroy"]
  /\ UNCHANGED <<ann, hasMeta, modified, menuVars, subVars, selectVars, settingsVars>>

\* ------------------------------------------- AddJamAssetLicenseOptions
\* an object that is no UJamAssetLicense, and a registry entry without the tag
NotLicense == [isLicense |-> FALSE, AssetSourceURL |-> Empty]
NoTag == [has |-> FALSE, value |-> Empty]
License(u) == [isLicense |-> TRUE, AssetSourceURL |-> u]
Tag(u) == [has |-> TRUE, value |-> u]

AddJamAssetLicenseOptions(s) ==
  /\ s # <<>>
  /\ sel' = s
  /\ menuEntries' = {"SelectAssociatedAssets", "ViewAssetSource"}
  /\ browserSel' = Range(s)
  /\ last' = [NoOp EXCEPT !.op = "licensemenu"]
  /\ UNCHANGED <<storeVars, bAnyHaveLicense, bAnyMissingLicense, SharedLicenseAssetID,
                 StartingValue, subVars, licURL, regTag, syncCalls, settingsVars>>

\* TSet<FString>::Add over the loop of lines 220-229
RECURSIVE CollectSourceURLs(_, _)
CollectSourceURLs(set, objs) ==
  IF objs = <<>> THEN set
  ELSE LET o == Head(objs)
           add == /\ alive[o]
                  /\ licURL[o].isLicense
                  /\ licURL[o].AssetSourceURL # Empty
                  /\ ~\E u \in set : FStringEquals(u, licURL[o].AssetSourceURL)
       IN CollectSourceURLs(IF add THEN set \cup {licURL[o].AssetSourceURL} ELSE set,
                            Tail(objs))

\* a set keyed by the exact string
SetContains_Exact(set, TestURL) == TestURL \in set

\* AssetSourceURLs.Contains(TestURL)
SetContains(set, TestURL) == \E u \in set : FStringEquals(u, TestURL)

\* AssetRegistry.GetAssetsByTags({AssetSourceURL})
PotentialAssetList == {a \in Assets : regTag[a].has}

\* the loop of lines 239-249
MatchingAssetList(set) == {a \in PotentialAssetList : SetContains(set, regTag[a].value)}

SelectRelatedAssetsAction ==
  LET matching == MatchingAssetList(CollectSourceURLs({}, sel)) IN
  /\ "SelectAssociatedAssets" \in menuEntries
  /\ IF matching # {}
     THEN browserSel' = matching /\ syncCalls' = syncCalls + 1
     ELSE UNCHANGED <<browserSel, syncCalls>>
  /\ syncCalls < MaxSyncs
  /\ last' = [NoOp EXCEPT !.op = "select"]
  /\ UNCHANGED <<storeVars, menuVars, subVars, licURL, regTag, settingsVars>>

\* --------------------------------------- ManipulateAssetManagerSettings
JamAssetLicenseType == "JamAssetLicense"
MD_AssetSourceURL == "AssetSourceURL"
NoteCheckedOut == "Checked out {0}"
NoteMadeWritable == "Made {0} writable (you may need to manually add to source control)"
NoteFailed == "Failed to check out {0} or make it writable, so no rule was added"
NoteUpdated == "Updated {0}"

\* the SettingsHelpers calls of lines 407-434, given what the host answers
HelperCalls(checkOutOK, makeWritableOK) ==
  IF ~checkedOut
  THEN <<[fn |-> "IsCheckedOut", ok |-> FALSE],
         [fn |-> "CheckOutOrAddFile", ok |-> checkOutOK]>>
       \o (IF checkOutOK THEN <<>> ELSE <<[fn |-> "MakeWritable", ok |-> makeWritableOK]>>)
  ELSE <<[fn |-> "IsCheckedOut", ok |-> TRUE]>>

\* InnerBody run without the test of bSuccess
bSuccess_Always(checkOutOK, makeWritableOK) == TRUE

\* bSuccess at line 437
bSuccess(checkOutOK, makeWritableOK) ==
  IF ~checkedOut THEN (IF checkOutOK THEN TRUE ELSE makeWritableOK) ELSE TRUE

NotificationOpText(checkOutOK, makeWritableOK) ==
  IF ~checkedOut
  THEN IF checkOutOK THEN NoteCheckedOut
       ELSE IF makeWritableOK THEN NoteMadeWritable ELSE NoteFailed
  ELSE NoteUpdated

\* InnerBody is given as the settings it produces
ManipulateAssetManagerSettings(innerTypes, innerTags, checkOutOK, makeWritableOK) ==
  /\ calls' = HelperCalls(checkOutOK, makeWritableOK)
  /\ checkedOut' = (checkedOut \/ checkOutOK)
  /\ writable' = (writable \/ checkedOut \/ checkOutOK \/ makeWritableOK)
  /\ IF bSuccess(checkOutOK, makeWritableOK)
     THEN /\ PrimaryAssetTypesToScan' = innerTypes
          /\ MetaDataTagsForAssetRegistry' = innerTags
          /\ configSaves' = configSaves + 1
          /\ reinits' = reinits + 1
     ELSE UNCHANGED <<PrimaryAssetTypesToScan, MetaDataTagsForAssetRegistry,
                      configSaves, reinits>>
  /\ notification' = NotificationOpText(checkOutOK, makeWritableOK)

AddJamAssetLicenseRule(checkOutOK, makeWritableOK) ==
  /\ "AddRuleForJamAssetLicense" \in tokens
  /\ tokens' = tokens \ {"AddRuleForJamAssetLicense"}
  /\ ManipulateAssetManagerSettings(Append(PrimaryAssetTypesToScan, JamAssetLicenseType),
                                    MetaDataTagsForAssetRegistry, checkOutOK, makeWritableOK)
  /\ last' = [NoOp EXCEPT !.op = "addrule"]
  /\ UNCHANGED <<storeVars, menuVars, subVars, selectVars>>

AddAssetLicenseToAssetRegistryRule(checkOutOK, makeWritableOK) ==
  /\ "AddMetaDataToAssetRegistry" \in tokens
  /\ tokens' = tokens \ {"AddMetaDataToAssetRegistry"}
  /\ ManipulateAssetManagerSettings(PrimaryAssetTypesToScan,
                                    MetaDataTagsForAssetRegistry \cup {MD_AssetSourceURL},
                                    checkOutOK, makeWritableOK)
  /\ last' = [NoOp EXCEPT !.op = "addtag"]
  /\ UNCHANGED <<storeVars, menuVars, subVars, selectVars>>

OnAssetManagerCreated ==
  /\ last.op = "none"
  /\ tokens' =
       (IF \A i \in DOMAIN PrimaryAssetTypesToScan : PrimaryAssetTypesToScan[i] # JamAssetLicenseType
        THEN {"AddRuleForJamAssetLicense"} ELSE {})
       \cup (IF MD_AssetSourceURL \notin MetaDataTagsForAssetRegistry
             THEN {"AddMetaDataToAssetRegistry"} ELSE {})
  /\ last' = [NoOp EXCEPT !.op = "created"]
  /\ UNCHANGED <<storeVars, menuVars, subVars, selectVars, checkedOut, writable,
                 PrimaryAssetTypesToScan, MetaDataTagsForAssetRegistry, configSaves,
                 reinits, notification, calls>>

\* an edit made outside the editor: the ini is checked in again, or locked
FileReverts ==
  /\ last.op \in {"addrule", "addtag"}
  /\ checkedOut \/ writable
  /\ checkedOut' = FALSE
  /\ writable' = FALSE
  /\ last' = [NoOp EXCEPT !.op = "reverted"]
  /\ UNCHANGED <<storeVars, menuVars, subVars, selectVars, PrimaryAssetTypesToScan,
                 MetaDataTagsForAssetRegistry, configSaves, reinits, notification,
                 tokens, calls>>

\* -------------------------------------------------------------------- Init
StoreStatesOver(vals) ==
  {st \in [a : [Assets -> vals], m : [Packages -> BOOLEAN]] :
     \A x \in Assets : ~st.m[PackageOf(x)] => st.a[x] = Empty}

InitMenuVars ==
  /\ sel = <<>>
  /\ bAnyHaveLicense = FALSE
  /\ bAnyMissingLicense = FALSE
  /\ SharedLicenseAssetID = Empty
  /\ StartingValue = Empty
  /\ menuEntries = {}
  /\ subBuilt = FALSE
  /\ URLUsageMap = <<>>
  /\ NumAssetsWithNoURL = 0
  /\ UniqueURLs = <<>>
  /\ subEntries = <<>>
  /\ last = NoOp

InitStoreOver(vals) ==
  /\ \E st \in StoreStatesOver(vals) : ann = st.a /\ hasMeta = st.m
  /\ alive = [a \in Assets |-> TRUE]
  /\ modified = {}

InitStoreEmpty ==
  /\ ann = [a \in Assets |-> Empty]
  /\ hasMeta = [p \in Packages |-> FALSE]
  /\ alive = [a \in Assets |-> TRUE]
  /\ modified = {}

InitSelectVars ==
  /\ licURL = [a \in Assets |-> NotLicense]
  /\ regTag = [a \in Assets |-> NoTag]
  /\ browserSel = {}
  /\ syncCalls = 0

InitSettingsVars ==
  /\ checkedOut = FALSE
  /\ writable = FALSE
  /\ PrimaryAssetTypesToScan = <<>>
  /\ MetaDataTagsForAssetRegistry = {}
  /\ configSaves = 0
  /\ reinits = 0
  /\ notification = ""
  /\ tokens = {}
  /\ calls = <<>>

\* A behaviour is one context menu: the section is built once for a selection
\* (menuEntries = {} before), and its entries are then used.

\* the context menu of the 'Asset Source (License)' section and its submenu
Init == InitStoreOver(Values) /\ InitMenuVars /\ InitSelectVars /\ InitSettingsVars

Next ==
  \/ \E s \in SelSeqs : menuEntries = {} /\ AddAssetSourceOptions(s)
  \/ CreateLicenseListSubmenu

Spec == Init /\ [][Next]_vars

\* one menu and the commits of its 'Source URL' text box
InitCommit ==
  InitStoreOver({Empty, URL_a, URL_B}) /\ InitMenuVars /\ InitSelectVars /\ InitSettingsVars

\* the selections of these menus are taken in ascending order of asset: the
\* handler's writes do not depend on the order, and StartingValue still takes
\* every value the loop can give it
AscendingSels == {s \in SelSeqs : \A i, j \in DOMAIN s : i < j => s[i] < s[j]}

NextCommit ==
  \/ \E s \in AscendingSels : menuEntries = {} /\ AddAssetSourceOptions(s)
  \/ \E c \in CommitInputs : SetLicenseURLAction(c[1], c[2])
  \/ \E a \in Assets : DestroyAsset(a)

SpecCommit == InitCommit /\ [][NextCommit]_vars

\* the 'Select Associated Assets' action of a license asset's menu
AssetKinds ==
  {[lic |-> NotLicense, tag |-> g] : g \in {NoTag, Tag(URL_A), Tag(URL_B)}}
  \cup {[lic |-> License(u), tag |-> NoTag] : u \in {Empty, URL_a, URL_B}}
  \cup {[lic |-> License(URL_a), tag |-> Tag(URL_a)]}

InitSelect ==
  /\ \E k \in [Assets -> AssetKinds] :
       /\ licURL = [a \in Assets |-> k[a].lic]
       /\ regTag = [a \in Assets |-> k[a].tag]
  /\ browserSel = {}
  /\ syncCalls = 0
  /\ InitStoreEmpty /\ InitMenuVars /\ InitSettingsVars

NextSelect ==
  \/ \E s \in SelSeqs : menuEntries = {} /\ AddJamAssetLicenseOptions(s)
  \/ SelectRelatedAssetsAction

SpecSelect == InitSelect /\ [][NextSelect]_vars

\* the startup diagnostic and its two auto-fix actions
InitSettings ==
  /\ checkedOut \in BOOLEAN
  /\ writable \in BOOLEAN
  /\ PrimaryAssetTypesToScan \in {<<>>, <<"Map">>, <<"Map", JamAssetLicenseType>>}
  /\ MetaDataTagsForAssetRegistry \in SUBSET {MD_AssetSourceURL, "Other"}
  /\ configSaves = 0
  /\ reinits = 0
  /\ notification = ""
  /\ tokens = {}
  /\ calls = <<>>
  /\ InitStoreEmpty /\ InitMenuVars /\ InitSelectVars

NextSettings ==
  \/ OnAssetManagerCreated
  \/ \E co, mw \in BOOLEAN : AddJamAssetLicenseRule(co, mw)
  \/ \E co, mw \in BOOLEAN : AddAssetLicenseToAssetRegistryRule(co, mw)
  \/ FileReverts

SpecSettings == InitSettings /\ [][NextSettings]_vars

\* ------------------------------------------------------------ claim helpers
RECURSIVE SumCounts(_)
SumCounts(m) == IF m = <<>> THEN 0 ELSE Head(m).count + SumCounts(Tail(m))

MenuBuilt == "LicenseURL" \in menuEntries
Selected == Range(GetSelectedObjects(sel))
HasURL(a) == HasStore(a) /\ ann[a] # Empty
\* every selected asset carries u, up to the equality FString implements
AllShare(u) == sel # <<>> /\ \A a \in Selected : HasURL(a) /\ FStringEquals(ann[a], u)
KeySet(m) == {m[i].key : i \in DOMAIN m}
FirstWith(k) ==
  CHOOSE i \in DOMAIN sel :
    /\ HasURL(sel[i]) /\ FStringEquals(ann[sel[i]], k)
    /\ \A j \in 1..(i - 1) : ~(HasURL(sel[j]) /\ FStringEquals(ann[sel[j]], k))

\* C1: SharedLicenseAssetID is a URL u iff the selection is non-empty and every
\* selected asset has the non-empty annotation u (equality taken as FString
\* takes it, so that letter case alone never decides the outcome); in every
\* other case, an asset without a metadata store included, it is empty.
C1_SharedValueIff ==
  MenuBuilt =>
    /\ SharedLicenseAssetID # Empty => AllShare(SharedLicenseAssetID)
    /\ (\E u \in URLs : AllShare(u)) => SharedLicenseAssetID # Empty

\* C2: after the collection loop the counts of URLUsageMap plus
\* NumAssetsWithNoURL add up to the number of selected assets, the assets
\* without a URL (no metadata store, or no value) are exactly the ones counted
\* in NumAssetsWithNoURL, and the loop over no assets yields an empty tally and 0.
C2_TallyAccountsForAll ==
  /\ subBuilt =>
       /\ SumCounts(URLUsageMap) + NumAssetsWithNoURL = Len(GetSelectedObjects(sel))
       /\ NumAssetsWithNoURL = Cardinality({a \in Selected : ~HasURL(a)})
  /\ Summarize(<<>>) = [map |-> <<>>, none |-> 0]

C2_Witness ==
  /\ subBuilt
  /\ NumAssetsWithNoURL >= 1
  /\ \E a \in Selected : ~HasStore(a)
  /\ URLUsageMap # <<>>

\* C3 as stated: the keys of URLUsageMap are exactly the distinct non-empty URL
\* strings of the selected assets, told apart case-sensitively, each mapped to
\* the number of selected assets carrying exactly that string (at least 1).
C3_KeysCaseSensitive ==
  subBuilt =>
    /\ KeySet(URLUsageMap) = {ann[a] : a \in {x \in Selected : HasURL(x)}}
    /\ \A i \in DOMAIN URLUsageMap :
         /\ URLUsageMap[i].count = Cardinality({a \in Selected : ann[a] = URLUsageMap[i].key})
         /\ URLUsageMap[i].count >= 1

\* C3 amended: the keys of URLUsageMap are pairwise different ignoring letter
\* case; every non-empty URL of a selected asset equals exactly one key
\* ignoring case; a key is spelled as on the first selected asset that carries
\* it; and it maps to the number of selected assets whose URL equals it
\* ignoring case, which is at least 1.
C3_KeysIgnoringCase ==
  subBuilt =>
    /\ \A i, j \in DOMAIN URLUsageMap :
         i # j => ~FStringEquals(URLUsageMap[i].key, URLUsageMap[j].key)
    /\ \A a \in Selected :
         HasURL(a) => \E i \in DOMAIN URLUsageMap : FStringEquals(URLUsageMap[i].key, ann[a])
    /\ \A i \in DOMAIN URLUsageMap :
         /\ \E a \in Selected : HasURL(a) /\ FStringEquals(ann[a], URLUsageMap[i].key)
         /\ URLUsageMap[i].key = ann[sel[FirstWith(URLUsageMap[i].key)]]
         /\ URLUsageMap[i].count =
              Cardinality({a \in Selected : HasURL(a) /\ FStringEquals(ann[a], URLUsageMap[i].key)})
         /\ URLUsageMap[i].count >= 1

C3_Witness ==
  /\ subBuilt
  /\ \E i \in DOMAIN URLUsageMap :
       /\ URLUsageMap[i].count >= 2
       /\ \E a \in Selected : HasURL(a) /\ ann[a] # URLUsageMap[i].key
                               /\ FStringEquals(ann[a], URLUsageMap[i].key)

IsListingOfKeys ==
  /\ Len(UniqueURLs) = Len(URLUsageMap)
  /\ KeySet(URLUsageMap) = Range(UniqueURLs)

SameTallyReorderedSortsSame ==
  \A s2 \in SelSeqs :
    Range(s2) = Range(sel) =>
      LET r2 == Summarize(GetSelectedObjects(s2)) IN
      Range(r2.map) = Range(URLUsageMap) =>
        SortKeys(r2.map, GenerateKeyArray(r2.map)) = UniqueURLs

\* C4 as stated: UniqueURLs lists every tally key exactly once, and of two
\* adjacent entries the earlier has the strictly higher count, or the same
\* count and the smaller URL in byte (codepoint) order.
C4_RankedByteOrder ==
  subBuilt =>
    /\ IsListingOfKeys
    /\ \A i \in 1..(Len(UniqueURLs) - 1) :
         LET ca == MapCount(URLUsageMap, UniqueURLs[i])
             cb == MapCount(URLUsageMap, UniqueURLs[i + 1])
         IN ca > cb \/ (ca = cb /\ ByteLess(UniqueURLs[i], UniqueURLs[i + 1]))

\* C4 amended: UniqueURLs lists every tally key exactly once, and of two
\* adjacent entries the earlier has the strictly higher count, or the same
\* count and the URL that is lexicographically smaller once ASCII upper case is
\* folded to lower case; the order is the same for the same tally whatever
\* order the assets were selected in.
C4_RankedIgnoringCase ==
  subBuilt =>
    /\ IsListingOfKeys
    /\ \A i \in 1..(Len(UniqueURLs) - 1) :
         LET ca == MapCount(URLUsageMap, UniqueURLs[i])
             cb == MapCount(URLUsageMap, UniqueURLs[i + 1])
         IN ca > cb \/ (ca = cb /\ FStringLess(UniqueURLs[i], UniqueURLs[i + 1]))
    /\ SameTallyReorderedSortsSame

C4_Witness ==
  /\ subBuilt
  /\ Len(UniqueURLs) >= 2
  /\ GenerateKeyArray(URLUsageMap) # UniqueURLs
  /\ \E i \in 1..(Len(UniqueURLs) - 1) :
       /\ MapCount(URLUsageMap, UniqueURLs[i]) = MapCount(URLUsageMap, UniqueURLs[i + 1])
       /\ ~ByteLess(UniqueURLs[i], UniqueURLs[i + 1])

\* C9: 'View Source' is offered exactly when all selected assets have the same
\* non-empty URL, 'View Sources' exactly when some selected asset has a URL but
\* they do not all share one, never both, neither when no selected asset has a
\* URL, and a submenu that is built lists at least two URLs, or one URL and
\* the '[no license]' placeholder.
C9_MenuOffers ==
  MenuBuilt =>
    /\ "OpenLicenseURL" \in menuEntries <=> \E u \in URLs : AllShare(u)
    /\ "ViewLicenses" \in menuEntries <=>
         /\ \E a \in Selected : HasURL(a)
         /\ ~\E u \in URLs : AllShare(u)
    /\ ~({"OpenLicenseURL", "ViewLicenses"} \subseteq menuEntries)
    /\ (\A a \in Selected : ~HasURL(a)) =>
         menuEntries \cap {"OpenLicenseURL", "ViewLicenses"} = {}
    /\ subBuilt =>
         \/ Len(UniqueURLs) >= 2
         \/ Len(UniqueURLs) = 1 /\ subEntries = UniqueURLs \o <<NoLicenseLabel>>
\* C5 as stated: after the commit handler is invoked with a text, every asset
\* of the selection (that still exists) has its annotation removed when the
\* text is empty and equal to the text otherwise.
C5_EveryCommitApplies ==
  (last.op = "commit" /\ last.type # "OnCleared") =>
    \A a \in Range(sel) : alive[a] => ann[a] = last.val

\* C5 amended: after the commit handler is invoked with a commit type other
\* than OnCleared and a text that differs, letter case ignored, from the text
\* box's initial value, every asset of the selection that still exists has its
\* annotation removed when the text is empty and equal to the text otherwise.
C5_EffectiveCommitApplies ==
  (/\ last.op = "commit"
   /\ last.type # "OnCleared"
   /\ ~FStringEquals(last.val, StartingValue)) =>
    \A a \in Range(sel) : alive[a] => ann[a] = last.val

C5_Witness ==
  /\ last.op = "commit"
  /\ last.type = "OnEnter"
  /\ last.val = URL_A
  /\ StartingValue = MultipleValues
  /\ Len(sel) >= 2
  /\ bAnyMissingLicense
  /\ \A a \in Range(sel) : ann[a] = URL_A

\* C6: a second invocation of the commit handler with the same text and commit
\* type, right after the first, leaves every annotation (and every metadata
\* store) as the first invocation left it.
C6_Idempotent ==
  [][(last'.op = "commit" /\ last'.rep) => (ann' = ann /\ hasMeta' = hasMeta)]_vars

C6_Witness ==
  /\ last.op = "commit"
  /\ last.rep
  /\ last.type = "OnEnter"
  /\ last.val = URL_A
  /\ modified # {}
  /\ \E a \in Range(sel) : alive[a] /\ ann[a] = URL_A

\* C10: a commit of type OnCleared, or of the text box's initial text, changes
\* no annotation and marks no package modified; and any commit leaves the
\* annotations of the assets outside the selection and of the selected assets
\* that no longer exist unchanged, and marks only packages that own a selected
\* asset.
C10_CommitFrame ==
  [][last'.op = "commit" =>
       /\ (last'.type = "OnCleared" \/ last'.val = StartingValue) =>
            (ann' = ann /\ hasMeta' = hasMeta /\ modified' = modified)
       /\ \A a \in Assets : (a \notin Range(sel) \/ ~alive[a]) => ann'[a] = ann[a]
       /\ (modified' \ modified) \subseteq {PackageOf(a) : a \in Range(sel)}]_vars

C10_Witness ==
  /\ last.op = "commit"
  /\ last.val = StartingValue
  /\ StartingValue = MultipleValues
  /\ modified = {}
  /\ \E a \in Range(sel) : ~alive[a] /\ ann[a] # Empty
  /\ \E a \in Assets : a \notin Range(sel) /\ ann[a] # Empty

SelectedSourceURLs ==
  {licURL[a].AssetSourceURL :
     a \in {x \in Range(sel) : alive[x] /\ licURL[x].isLicense
                                /\ licURL[x].AssetSourceURL # Empty}}
MatchExact == {a \in Assets : regTag[a].has /\ regTag[a].value \in SelectedSourceURLs}
MatchIgnoringCase ==
  {a \in Assets : regTag[a].has
                  /\ \E u \in SelectedSourceURLs : FStringEquals(u, regTag[a].value)}

\* C7 as stated: the action selects exactly the registry assets whose tag value
\* is the same string, letter case included, as the non-empty AssetSourceURL of
\* a selected license asset, and leaves the selection alone when there is none.
C7_SelectsExactMatches ==
  last.op = "select" =>
    IF MatchExact = {} THEN browserSel = Range(sel) /\ syncCalls = 0
    ELSE browserSel = MatchExact

\* C7 amended: the action selects exactly the registry assets whose tag value
\* equals, ASCII letter case ignored and nothing else normalized, the non-empty
\* AssetSourceURL of at least one selected license asset; when there is no such
\* asset the content browser selection is not changed.
C7_SelectsMatchesIgnoringCase ==
  last.op = "select" =>
    IF MatchIgnoringCase = {} THEN browserSel = Range(sel) /\ syncCalls = 0
    ELSE browserSel = MatchIgnoringCase

C7_Witness ==
  /\ last.op = "select"
  /\ syncCalls >= 1
  /\ \E a \in browserSel : regTag[a].value \notin SelectedSourceURLs
  /\ \E a \in Assets : regTag[a].has /\ a \notin browserSel
  /\ \E a \in Range(sel) : ~licURL[a].isLicense

CallResult(c, fn) == \E i \in DOMAIN c : c[i].fn = fn /\ c[i].ok
CallFailed(c, fn) == \E i \in DOMAIN c : c[i].fn = fn /\ ~c[i].ok

\* C8: a run of ManipulateAssetManagerSettings applies InnerBody (and then
\* saves the ini and reinitializes the asset manager, once each) exactly when
\* the ini was checked out already, or the checkout succeeded, or the checkout
\* failed and MakeWritable succeeded; otherwise both settings, the ini and the
\* asset manager are left alone and the failure notification is shown; and no
\* helper is called twice.
C8_AppliesOrLeaves ==
  [][(last'.op \in {"addrule", "addtag"} /\ tokens' # tokens) =>
       LET applied ==
             /\ IF last'.op = "addrule"
                THEN /\ PrimaryAssetTypesToScan' =
                          Append(PrimaryAssetTypesToScan, JamAssetLicenseType)
                     /\ MetaDataTagsForAssetRegistry' = MetaDataTagsForAssetRegistry
                ELSE /\ PrimaryAssetTypesToScan' = PrimaryAssetTypesToScan
                     /\ MetaDataTagsForAssetRegistry' =
                          MetaDataTagsForAssetRegistry \cup {MD_AssetSourceURL}
                     /\ MetaDataTagsForAssetRegistry' # MetaDataTagsForAssetRegistry
             /\ configSaves' = configSaves + 1
             /\ reinits' = reinits + 1
           untouched ==
             /\ PrimaryAssetTypesToScan' = PrimaryAssetTypesToScan
             /\ MetaDataTagsForAssetRegistry' = MetaDataTagsForAssetRegistry
             /\ configSaves' = configSaves
             /\ reinits' = reinits
           writableNow ==
             \/ checkedOut
             \/ CallResult(calls', "CheckOutOrAddFile")
             \/ CallFailed(calls', "CheckOutOrAddFile") /\ CallResult(calls', "MakeWritable")
       IN /\ applied <=> writableNow
          /\ ~writableNow => untouched /\ notification' = NoteFailed
          /\ writableNow => notification' # NoteFailed
          /\ \A i, j \in DOMAIN calls' : i # j => calls'[i].fn # calls'[j].fn]_vars

C8_Witness ==
  /\ last.op = "addtag"
  /\ notification = NoteFailed
  /\ CallFailed(calls, "CheckOutOrAddFile")
  /\ CallFailed(calls, "MakeWritable")
  /\ MD_AssetSourceURL \notin MetaDataTagsForAssetRegistry
  /\ configSaves = 1
====
